---- MODULE Spec2Model ----
(***************************************************************************)
(* msal-simple-helper: the module-level session (msalInstance, authConfig) *)
(* and the asynchronous operations msalInit, msalLogin,                    *)
(* msalGetAccessToken, msalLogout and msalDestroy of                       *)
(* src/src/msal-simple-helper.ts.  Every await of the source is a          *)
(* suspension point: an operation is one action from its call to its first *)
(* await and one action per resumption.  The identity client              *)
(* (IPublicClientApplication) is the environment: each of its calls        *)
(* settles with an outcome drawn from a small set.                         *)
(***************************************************************************)
EXTENDS Naturals, Sequences, FiniteSets

VARIABLES
  msalInstance,   \* the module variable msalInstance: a client handle, or Null
  authConfig,     \* the module variable authConfig: None or Some(config)
  fnInitCalls,    \* how many times the creation entry point was invoked
  active,         \* per client handle: its active account ("none": unset)
  redirects,      \* per client handle: the promise chain of msalInit line 38-39
  task            \* per caller: the operation in flight and what it observed

vars == <<msalInstance, authConfig, fnInitCalls, active, redirects, task>>

(* ------------------------------ bounds -------------------------------- *)

\* The creation entry point is invoked at most MaxClients times in a run; its
\* n-th invocation is the one that can resolve with the client of handle n.
MaxClients == 2

Handles == 1..MaxClients
Null == 0

(* --------------------------- optional values -------------------------- *)

\* undefined / null is the empty tuple, a present value x is <<x>>.
None == <<>>
Some(x) == <<x>>

(* ------------------------------ strings ------------------------------- *)

\* Strings that the code lower-cases are tuples of characters.
Str_popup == <<"p", "o", "p", "u", "p">>
Str_Popup == <<"P", "o", "p", "u", "p">>
Str_redirect == <<"r", "e", "d", "i", "r", "e", "c", "t">>
Str_Redirect == <<"R", "e", "d", "i", "r", "e", "c", "t">>
Str_silent == <<"s", "i", "l", "e", "n", "t">>

UpperLetters == <<"A", "B", "C", "D", "E", "F", "G", "H", "I", "J", "K", "L", "M",
                  "N", "O", "P", "Q", "R", "S", "T", "U", "V", "W", "X", "Y", "Z">>
LowerLetters == <<"a", "b", "c", "d", "e", "f", "g", "h", "i", "j", "k", "l", "m",
                  "n", "o", "p", "q", "r", "s", "t", "u", "v", "w", "x", "y", "z">>

\* String.prototype.toLowerCase, character by character.
toLowerCase(s) ==
  [i \in DOMAIN s |->
     IF \E k \in DOMAIN UpperLetters : UpperLetters[k] = s[i]
       THEN LowerLetters[CHOOSE k \in DOMAIN UpperLetters : UpperLetters[k] = s[i]]
       ELSE s[i]]

(* --------------------------- configurations --------------------------- *)

TenantIds == {"mockTenantId", "mockTenantId2"}
ClientIds == {"mockClientId", "mockClientId2"}

\* Scopes arrays are objects: "s1" and "s2" are two distinct arrays with the
\* same elements, "s3" is an array with other elements.
ScopeRefs == {"s1", "s2", "s3"}
ScopeElements(ref) ==
  CASE ref = "s1" -> <<"user.read">>
    [] ref = "s2" -> <<"user.read">>
    [] ref = "s3" -> <<"mail.read">>

FlowValues == {None, Some(Str_popup), Some(Str_Popup), Some(Str_redirect),
               Some(Str_Redirect), Some(Str_silent)}

\* interface AuthConfig, plus the flags noSso and noAcquireTokenSilent that
\* callers pass (src/unnamed/part_000 lines 74 and 178) and that AuthConfig
\* does not declare.
AuthConfig(tenantIds, clientIds, scopes, flows, handlers, noSsos, noSilents) ==
  [tenantId : tenantIds, clientId : clientIds, scopes : scopes, flow : flows,
   redirectResponseHandler : handlers, noSso : noSsos,
   noAcquireTokenSilent : noSilents]

\* The configs callers pass.  With the flow unset: every tenant and client
\* without scopes, and mockConfig with each scopes array.  With the tenant
\* and client of mockConfig and no scopes: every flow without a handler, the
\* redirect flows with a handler, the noSso flag in each mode, and the
\* noAcquireTokenSilent flag.
Configs ==
  AuthConfig(TenantIds, ClientIds, {None}, {None}, {FALSE}, {FALSE}, {FALSE})
  \cup AuthConfig({"mockTenantId"}, {"mockClientId"}, {Some(r) : r \in ScopeRefs},
                  {None}, {FALSE}, {FALSE}, {FALSE})
  \cup AuthConfig({"mockTenantId"}, {"mockClientId"}, {None},
                  FlowValues, {FALSE}, {FALSE}, {FALSE})
  \cup AuthConfig({"mockTenantId"}, {"mockClientId"}, {None},
                  {Some(Str_redirect), Some(Str_Redirect)}, {TRUE}, {FALSE}, {FALSE})
  \cup AuthConfig({"mockTenantId"}, {"mockClientId"}, {None},
                  {None, Some(Str_popup)}, {FALSE}, {TRUE}, {FALSE})
  \cup AuthConfig({"mockTenantId"}, {"mockClientId"}, {None},
                  {Some(Str_redirect)}, {TRUE}, {TRUE}, {FALSE})
  \cup AuthConfig({"mockTenantId"}, {"mockClientId"}, {None},
                  {None}, {FALSE}, {FALSE}, {TRUE})

\* config.flow?.toLowerCase()
flowLower(config) ==
  IF config.flow = None THEN None ELSE Some(toLowerCase(config.flow[1]))

\* validateConfig without the check of line 95.
validateConfig_NoHandlerCheck(config) ==
  IF config = None THEN "Please, provide a valid config"
  ELSE IF config[1].flow # None
          /\ flowLower(config[1]) \notin {Some(Str_popup), Some(Str_redirect)}
    THEN "Flow should be either popup or redirect"
  ELSE "ok"

\* validateConfig: "ok", or the message of the Error it throws.
validateConfig(config) ==
  IF config = None THEN "Please, provide a valid config"
  ELSE IF config[1].flow # None
          /\ flowLower(config[1]) \notin {Some(Str_popup), Some(Str_redirect)}
    THEN "Flow should be either popup or redirect"
  ELSE IF flowLower(config[1]) = Some(Str_redirect)
          /\ ~config[1].redirectResponseHandler
    THEN "Please, specify response handler for redirect flow"
  ELSE "ok"

\* configsDiffer without the comparison of the client ids.
configsDiffer_NoClientId(cf1, cf2) ==
  \/ cf1.tenantId # cf2.tenantId
  \/ cf1.scopes # cf2.scopes

\* configsDiffer without the comparison of the scopes.
configsDiffer_NoScopes(cf1, cf2) ==
  \/ cf1.tenantId # cf2.tenantId
  \/ cf1.clientId # cf2.clientId

\* configsDiffer comparing the whole configs.
configsDiffer_WholeConfig(cf1, cf2) == cf1 # cf2

\* configsDiffer: !== on the scopes compares the array objects.
configsDiffer(cf1, cf2) ==
  \/ cf1.tenantId # cf2.tenantId
  \/ cf1.clientId # cf2.clientId
  \/ cf1.scopes # cf2.scopes

(* ------------------------- results and tasks -------------------------- *)

Accounts == {"acc1", "acc2"}

\* An AuthenticationResult: the call that produced it and its account.
Responses(method) == [from : {method}, account : Accounts]
NoResponse == [from |-> "none", account |-> "none"]

\* What getAllAccounts may return.
AccountLists == {<<>>, <<"acc1">>, <<"acc2", "acc1">>}

NoResult == [kind |-> "none", handle |-> Null, resp |-> NoResponse, err |-> ""]
HandleResult(h) == [kind |-> "handle", handle |-> h, resp |-> NoResponse, err |-> ""]
RespResult(r) == [kind |-> "resp", handle |-> Null, resp |-> r, err |-> ""]
UndefinedResult == [kind |-> "undefined", handle |-> Null, resp |-> NoResponse, err |-> ""]
ErrorResult(e) == [kind |-> "error", handle |-> Null, resp |-> NoResponse, err |-> e]

ErrDiffer == "MSAL has already been initialized with different config"
ErrNotInitialized == "Please, initialize MSAL first."

\* How the session came to hold no client, as the caller has seen it: by
\* msalDestroy (with the session it cleared), by an msalLogout whose logout
\* call completed, or by an msalInit or msalLogin whose fnInit rejected.
NoEvent == [event |-> "none", inst |-> Null, cfg |-> None]
Destroyed(inst, cfg) == [event |-> "msalDestroy", inst |-> inst, cfg |-> cfg]
LoggedOut == [event |-> "msalLogout", inst |-> Null, cfg |-> None]
CreationFailed == [event |-> "fnInitFailed", inst |-> Null, cfg |-> None]

IdleTask ==
  [pc |-> "idle", op |-> "none", cfg |-> None, inst |-> Null,
   result |-> NoResult, calls |-> <<>>,
   start |-> [inst |-> Null, cfg |-> None], after |-> NoEvent]

\* A promise chain: its stage, the response handleRedirectPromise resolved
\* with, what getAllAccounts returned (None: not called), the client and the
\* account of the setActiveAccount call, and the calls of the callback.
NoRedirect ==
  [stage |-> "none", resp |-> NoResponse, listed |-> None,
   setOn |-> Null, account |-> "none", callbacks |-> 0]

Init ==
  /\ msalInstance = Null
  /\ authConfig = None
  /\ fnInitCalls = 0
  /\ active = [h \in Handles |-> "none"]
  /\ redirects = [h \in Handles |-> NoRedirect]
  /\ task = [t \in {"A"} |-> IdleTask]

\* A settled operation, and a promise chain that has run to its end, is
\* observed before anything else runs.  The second then of a promise chain
\* (line 39) reads and writes nothing but the chain's own response, so it is
\* run right after the first.
Observed ==
  /\ \A t \in DOMAIN task : task[t].pc # "done"
  /\ \A h \in Handles : redirects[h].stage \in {"none", "pending"}

\* The record of a call of operation op with config, made by the idle
\* caller t.
Called(t, op, config) ==
  [IdleTask EXCEPT !.op = op, !.cfg = config,
                   !.start = [inst |-> msalInstance, cfg |-> authConfig],
                   !.after = task[t].after]

Settle(tk, result) == [tk EXCEPT !.pc = "done", !.result = result]

\* The calls an operation makes are logged in tk.calls: the method m, how
\* the call ended (st: "pending", "ok", "failed") and the response it
\* resolved with (r; for setActiveAccount, r.account is its argument).
Call(m, st, r) == [m |-> m, st |-> st, r |-> r]

\* tk calls m and is suspended at pc until the call settles.
Suspend(tk, pc, m) ==
  [tk EXCEPT !.pc = pc, !.calls = Append(tk.calls, Call(m, "pending", NoResponse))]

\* The pending call of tk has settled.
Resumed(tk, st, r) ==
  [tk EXCEPT !.calls[Len(tk.calls)] = [@ EXCEPT !.st = st, !.r = r]]

\* tk makes the synchronous call m.
Sync(tk, m, st, r) == [tk EXCEPT !.calls = Append(tk.calls, Call(m, st, r))]

\* msalInstance.setActiveAccount(account) on the client tk holds.
SetActive(tk, account) ==
  Sync(tk, "setActiveAccount", "ok", [from |-> "none", account |-> account])

\* The state of the clients: a client that neither the session nor a caller
\* refers to any more is reclaimed, and its active account with it.
Reclaimed(act, inst, tasks) ==
  [h \in Handles |->
     IF h = inst \/ \E t \in DOMAIN tasks : tasks[t].inst = h
       THEN act[h] ELSE "none"]

(* ------------------------------ msalInit ------------------------------ *)

\* msalInit lines 23-35, from the call to its first await: validateConfig,
\* the check of the existing instance, the call of fnInit.  op is the public
\* operation that runs it: msalInit itself, or msalLogin (line 54).
msalInit_call(t, op, config) ==
  /\ Observed
  /\ task[t].pc = "idle"
  /\ LET tk == Called(t, op, config)
         v == validateConfig(config)
     IN  IF v # "ok"
           THEN /\ task' = [task EXCEPT ![t] = Settle(tk, ErrorResult(v))]
                /\ UNCHANGED fnInitCalls
         ELSE IF msalInstance # Null
           THEN /\ task' = [task EXCEPT ![t] =
                     IF authConfig # None /\ configsDiffer(config[1], authConfig[1])
                       THEN Settle(tk, ErrorResult(ErrDiffer))
                       ELSE [tk EXCEPT !.pc = "initResolve", !.inst = msalInstance]]
                /\ UNCHANGED fnInitCalls
         ELSE /\ fnInitCalls < MaxClients
              /\ fnInitCalls' = fnInitCalls + 1
              /\ task' = [task EXCEPT ![t] =
                    Suspend([tk EXCEPT !.inst = fnInitCalls + 1], "awaitFnInit", "fnInit")]
  /\ UNCHANGED <<msalInstance, authConfig, active, redirects>>

\* What msalInit's caller gets when msalInit returns handle h: msalInit's own
\* caller the handle, msalLogin (line 54) resumes with it.
Returned(tk, h) ==
  IF tk.op = "msalInit"
    THEN Settle([tk EXCEPT !.inst = h], HandleResult(h))
    ELSE [tk EXCEPT !.pc = "awaitMsalInit", !.inst = h]

msalInit(t, config) == msalInit_call(t, "msalInit", config)

\* msalInit line 31: return await Promise.resolve(msalInstance); the handle
\* was read before the await.
msalInit_existing(t) ==
  /\ Observed
  /\ task[t].pc = "initResolve"
  /\ task' = [task EXCEPT ![t] = Returned(task[t], task[t].inst)]
  /\ UNCHANGED <<msalInstance, authConfig, fnInitCalls, active, redirects>>

\* msalInit storing the client that fnInit was creating although fnInit
\* rejected.
msalInit_created_StoresOnFailure(t, ok, hrpThrows) ==
  /\ Observed
  /\ task[t].pc = "awaitFnInit"
  /\ IF ~ok
       THEN /\ msalInstance' = task[t].inst
            /\ task' = [task EXCEPT ![t] =
                  Settle([Resumed(task[t], "failed", NoResponse) EXCEPT !.inst = Null],
                         ErrorResult("fnInit rejected"))]
            /\ UNCHANGED <<authConfig, redirects>>
       ELSE LET h == task[t].inst
                config == task[t].cfg[1]
                redirect == flowLower(config) = Some(Str_redirect)
                tk0 == Resumed(task[t], "ok", NoResponse)
                tk == IF redirect
                        THEN Sync(tk0, "handleRedirectPromise",
                                  IF hrpThrows THEN "failed" ELSE "ok", NoResponse)
                        ELSE tk0
            IN  /\ msalInstance' = h
                /\ IF redirect /\ hrpThrows
                     THEN /\ task' = [task EXCEPT ![t] =
                                 Settle([tk EXCEPT !.inst = Null],
                                        ErrorResult("handleRedirectPromise threw"))]
                          /\ UNCHANGED <<authConfig, redirects>>
                     ELSE /\ redirects' = IF redirect
                                 THEN [redirects EXCEPT ![h].stage = "pending"]
                                 ELSE redirects
                          /\ authConfig' = Some(config)
                          /\ task' = [task EXCEPT ![t] = Returned(tk, h)]
  /\ active' = Reclaimed(active, msalInstance', task')
  /\ UNCHANGED fnInitCalls

\* msalInit lines 35-43, resumed when fnInit settles.  fnInit resolves with a
\* new client (ok) or rejects; handleRedirectPromise returns its promise or
\* throws at the call (hrpThrows).
msalInit_created(t, ok, hrpThrows) ==
  /\ Observed
  /\ task[t].pc = "awaitFnInit"
  /\ IF ~ok
       THEN /\ task' = [task EXCEPT ![t] =
                  Settle([Resumed(task[t], "failed", NoResponse) EXCEPT !.inst = Null],
                         ErrorResult("fnInit rejected"))]
            /\ UNCHANGED <<msalInstance, authConfig, redirects>>
       ELSE LET h == task[t].inst
                config == task[t].cfg[1]
                redirect == flowLower(config) = Some(Str_redirect)
                tk0 == Resumed(task[t], "ok", NoResponse)
                tk == IF redirect
                        THEN Sync(tk0, "handleRedirectPromise",
                                  IF hrpThrows THEN "failed" ELSE "ok", NoResponse)
                        ELSE tk0
            IN  /\ msalInstance' = h
                /\ IF redirect /\ hrpThrows
                     THEN /\ task' = [task EXCEPT ![t] =
                                 Settle([tk EXCEPT !.inst = Null],
                                        ErrorResult("handleRedirectPromise threw"))]
                          /\ UNCHANGED <<authConfig, redirects>>
                     ELSE /\ redirects' = IF redirect
                                 THEN [redirects EXCEPT ![h].stage = "pending"]
                                 ELSE redirects
                          /\ authConfig' = Some(config)
                          /\ task' = [task EXCEPT ![t] = Returned(tk, h)]
  /\ active' = Reclaimed(active, msalInstance', task')
  /\ UNCHANGED fnInitCalls

(* ------------------------ redirect completion ------------------------- *)

\* handleRedirectResponse taking the last of the cached accounts.
handleRedirectResponse_LastAccount(h, rejected, outcome, accounts) ==
  /\ Observed
  /\ redirects[h].stage = "pending"
  /\ IF rejected
       THEN /\ redirects' = [redirects EXCEPT ![h].stage = "rejected"]
            /\ UNCHANGED active
     ELSE IF msalInstance = Null
       THEN /\ redirects' = [redirects EXCEPT ![h].stage = "threw"]
            /\ UNCHANGED active
     ELSE IF outcome # None
       THEN /\ active' = [active EXCEPT ![msalInstance] = outcome[1].account]
            /\ redirects' = [redirects EXCEPT ![h] =
                  [@ EXCEPT !.stage = "handled", !.resp = outcome[1],
                            !.setOn = msalInstance, !.account = outcome[1].account]]
     ELSE IF Len(accounts) > 0
       THEN /\ active' = [active EXCEPT ![msalInstance] = accounts[Len(accounts)]]
            /\ redirects' = [redirects EXCEPT ![h] =
                  [@ EXCEPT !.stage = "handled", !.listed = Some(accounts),
                            !.setOn = msalInstance,
                            !.account = accounts[Len(accounts)]]]
     ELSE /\ redirects' = [redirects EXCEPT ![h] =
                [@ EXCEPT !.stage = "handled", !.listed = Some(accounts)]]
          /\ UNCHANGED active
  /\ UNCHANGED <<msalInstance, authConfig, fnInitCalls, task>>

\* handleRedirectResponse (lines 152-164), run when the promise of
\* handleRedirectPromise of client h settles: it rejects (and the handler is
\* skipped), or resolves with null (None) or with a response.  accounts is
\* what getAllAccounts returns.  It reads the module variable msalInstance.
handleRedirectResponse(h, rejected, outcome, accounts) ==
  /\ Observed
  /\ redirects[h].stage = "pending"
  /\ IF rejected
       THEN /\ redirects' = [redirects EXCEPT ![h].stage = "rejected"]
            /\ UNCHANGED active
     ELSE IF msalInstance = Null
       THEN /\ redirects' = [redirects EXCEPT ![h].stage = "threw"]
            /\ UNCHANGED active
     ELSE IF outcome # None
       THEN /\ active' = [active EXCEPT ![msalInstance] = outcome[1].account]
            /\ redirects' = [redirects EXCEPT ![h] =
                  [@ EXCEPT !.stage = "handled", !.resp = outcome[1],
                            !.setOn = msalInstance, !.account = outcome[1].account]]
     ELSE IF Len(accounts) > 0
       THEN /\ active' = [active EXCEPT ![msalInstance] = accounts[1]]
            /\ redirects' = [redirects EXCEPT ![h] =
                  [@ EXCEPT !.stage = "handled", !.listed = Some(accounts),
                            !.setOn = msalInstance, !.account = accounts[1]]]
     ELSE /\ redirects' = [redirects EXCEPT ![h] =
                [@ EXCEPT !.stage = "handled", !.listed = Some(accounts)]]
          /\ UNCHANGED active
  /\ UNCHANGED <<msalInstance, authConfig, fnInitCalls, task>>

\* The second then of the chain without the test of resp.
redirectResponseHandler_NoCheck(h) ==
  /\ redirects[h].stage = "handled"
  /\ redirects' = [redirects EXCEPT ![h] =
        [@ EXCEPT !.stage = "settled", !.callbacks = @ + 1]]
  /\ UNCHANGED <<msalInstance, authConfig, fnInitCalls, active, task>>

\* msalInit line 39: the second then of the chain.
redirectResponseHandler(h) ==
  /\ redirects[h].stage = "handled"
  /\ redirects' = [redirects EXCEPT ![h] =
        [@ EXCEPT !.stage = "settled",
                  !.callbacks = IF redirects[h].resp # NoResponse THEN @ + 1 ELSE @]]
  /\ UNCHANGED <<msalInstance, authConfig, fnInitCalls, active, task>>

\* The promise chain of client h has run to its end and is dropped.
redirectOver(h) ==
  /\ redirects[h].stage \in {"settled", "rejected", "threw"}
  /\ redirects' = [redirects EXCEPT ![h] = NoRedirect]
  /\ UNCHANGED <<msalInstance, authConfig, fnInitCalls, active, task>>

(* ------------------------------ msalLogin ----------------------------- *)

msalLogin(t, config) == msalInit_call(t, "msalLogin", config)

\* msalLogin line 55 and doLogin line 137: msalInit has returned, doLogin
\* calls ssoSilent.
doLogin_call(t) ==
  /\ Observed
  /\ task[t].pc = "awaitMsalInit"
  /\ task' = [task EXCEPT ![t] = Suspend(task[t], "awaitSso", "ssoSilent")]
  /\ UNCHANGED <<msalInstance, authConfig, fnInitCalls, active, redirects>>

\* doLogin comparing the flow with 'popup' as it is spelled.
doLogin_interactive_CaseSensitive(config) ==
  IF config.flow = Some(Str_popup) THEN "loginPopup" ELSE "loginRedirect"

\* doLogin with loginPopup in every mode.
doLogin_interactive_AlwaysPopup(config) == "loginPopup"

\* doLogin lines 142-148: the interactive login that follows a failed ssoSilent.
doLogin_interactive(config) ==
  IF flowLower(config) = Some(Str_popup) THEN "loginPopup" ELSE "loginRedirect"

\* doLogin returning the response of ssoSilent without setActiveAccount.
doLogin_ssoSilent_NoSetActive(t, outcome) ==
  /\ Observed
  /\ task[t].pc = "awaitSso"
  /\ task' = [task EXCEPT ![t] =
        IF outcome # None
          THEN Settle(Resumed(task[t], "ok", outcome[1]), RespResult(outcome[1]))
          ELSE LET tk == Resumed(task[t], "failed", NoResponse)
               IN  IF doLogin_interactive(tk.cfg[1]) = "loginPopup"
                     THEN Suspend(tk, "awaitLoginPopup", "loginPopup")
                     ELSE Suspend(tk, "awaitLoginRedirect", "loginRedirect")]
  /\ UNCHANGED <<msalInstance, authConfig, fnInitCalls, active, redirects>>

\* doLogin lines 137-148, resumed when ssoSilent settles: with a response
\* (Some), or with an error (None).
doLogin_ssoSilent(t, outcome) ==
  /\ Observed
  /\ task[t].pc = "awaitSso"
  /\ IF outcome # None
       THEN /\ active' = [active EXCEPT ![task[t].inst] = outcome[1].account]
            /\ task' = [task EXCEPT ![t] =
                  Settle(SetActive(Resumed(task[t], "ok", outcome[1]), outcome[1].account),
                         RespResult(outcome[1]))]
       ELSE /\ task' = [task EXCEPT ![t] =
                  LET tk == Resumed(task[t], "failed", NoResponse)
                  IN  IF doLogin_interactive(tk.cfg[1]) = "loginPopup"
                        THEN Suspend(tk, "awaitLoginPopup", "loginPopup")
                        ELSE Suspend(tk, "awaitLoginRedirect", "loginRedirect")]
            /\ UNCHANGED active
  /\ UNCHANGED <<msalInstance, authConfig, fnInitCalls, redirects>>

\* doLogin lines 143-145, resumed when loginPopup settles.
doLogin_loginPopup(t, outcome) ==
  /\ Observed
  /\ task[t].pc = "awaitLoginPopup"
  /\ IF outcome # None
       THEN /\ active' = [active EXCEPT ![task[t].inst] = outcome[1].account]
            /\ task' = [task EXCEPT ![t] =
                  Settle(SetActive(Resumed(task[t], "ok", outcome[1]), outcome[1].account),
                         RespResult(outcome[1]))]
       ELSE /\ task' = [task EXCEPT ![t] =
                  Settle(Resumed(task[t], "failed", NoResponse),
                         ErrorResult("loginPopup rejected"))]
            /\ UNCHANGED active
  /\ UNCHANGED <<msalInstance, authConfig, fnInitCalls, redirects>>

\* doLogin lines 147-150: loginRedirect resolves (doLogin returns undefined),
\* rejects, or navigates away (the call never resumes).
doLogin_loginRedirect(t, outcome) ==
  /\ Observed
  /\ task[t].pc = "awaitLoginRedirect"
  /\ task' = [task EXCEPT ![t] =
        CASE outcome = "resolved" ->
               Settle(Resumed(task[t], "ok", NoResponse), UndefinedResult)
          [] outcome = "rejected" ->
               Settle(Resumed(task[t], "failed", NoResponse),
                      ErrorResult("loginRedirect rejected"))
          [] outcome = "navigated" -> [task[t] EXCEPT !.pc = "navigated"]]
  /\ UNCHANGED <<msalInstance, authConfig, fnInitCalls, active, redirects>>

(* -------------------------- msalGetAccessToken ------------------------ *)

\* msalGetAccessToken without the check of line 65.
msalGetAccessToken_NoNullCheck(t) ==
  /\ Observed
  /\ task[t].pc = "idle"
  /\ task' = [task EXCEPT ![t] =
        Suspend([Called(t, "msalGetAccessToken", None) EXCEPT !.inst = msalInstance],
                "awaitTokenSilent", "acquireTokenSilent")]
  /\ UNCHANGED <<msalInstance, authConfig, fnInitCalls, active, redirects>>

\* msalGetAccessToken lines 65-69 and doGetAccessToken line 113.
msalGetAccessToken(t) ==
  /\ Observed
  /\ task[t].pc = "idle"
  /\ LET tk == Called(t, "msalGetAccessToken", None)
     IN  task' = [task EXCEPT ![t] =
           IF msalInstance = Null
             THEN Settle(tk, ErrorResult(ErrNotInitialized))
             ELSE Suspend([tk EXCEPT !.inst = msalInstance],
                          "awaitTokenSilent", "acquireTokenSilent")]
  /\ UNCHANGED <<msalInstance, authConfig, fnInitCalls, active, redirects>>

\* doGetAccessToken lines 113-118, resumed when acquireTokenSilent settles.
doGetAccessToken_silent(t, outcome) ==
  /\ Observed
  /\ task[t].pc = "awaitTokenSilent"
  /\ task' = [task EXCEPT ![t] =
        IF outcome # None
          THEN Settle(Resumed(task[t], "ok", outcome[1]), RespResult(outcome[1]))
          ELSE Suspend(Resumed(task[t], "failed", NoResponse),
                       "awaitTokenPopup", "acquireTokenPopup")]
  /\ UNCHANGED <<msalInstance, authConfig, fnInitCalls, active, redirects>>

\* doGetAccessToken lines 116-118, resumed when acquireTokenPopup settles.
doGetAccessToken_popup(t, outcome) ==
  /\ Observed
  /\ task[t].pc = "awaitTokenPopup"
  /\ task' = [task EXCEPT ![t] =
        IF outcome # None
          THEN Settle(Resumed(task[t], "ok", outcome[1]), RespResult(outcome[1]))
          ELSE Settle(Resumed(task[t], "failed", NoResponse),
                      ErrorResult("acquireTokenPopup rejected"))]
  /\ UNCHANGED <<msalInstance, authConfig, fnInitCalls, active, redirects>>

(* ------------------------ msalLogout, msalDestroy --------------------- *)

\* msalLogout without the check of line 76.
msalLogout_NoNullCheck(t) ==
  /\ Observed
  /\ task[t].pc = "idle"
  /\ task' = [task EXCEPT ![t] =
        Suspend([Called(t, "msalLogout", None) EXCEPT !.inst = msalInstance],
                "awaitLogout", "logoutPopup")]
  /\ UNCHANGED <<msalInstance, authConfig, fnInitCalls, active, redirects>>

\* msalLogout lines 76-77 and doLogout line 107.
msalLogout(t) ==
  /\ Observed
  /\ task[t].pc = "idle"
  /\ LET tk == Called(t, "msalLogout", None)
     IN  task' = [task EXCEPT ![t] =
           IF msalInstance = Null
             THEN Settle(tk, UndefinedResult)
             ELSE Suspend([tk EXCEPT !.inst = msalInstance],
                          "awaitLogout", "logoutPopup")]
  /\ UNCHANGED <<msalInstance, authConfig, fnInitCalls, active, redirects>>

\* msalLogout without the assignment of line 78.
msalLogout_resumed_KeepsClient(t, ok) ==
  /\ Observed
  /\ task[t].pc = "awaitLogout"
  /\ IF ok
       THEN /\ authConfig' = None
            /\ task' = [task EXCEPT ![t] =
                  Settle(Resumed(task[t], "ok", NoResponse), UndefinedResult)]
       ELSE /\ task' = [task EXCEPT ![t] =
                  Settle(Resumed(task[t], "failed", NoResponse),
                         ErrorResult("logoutPopup rejected"))]
            /\ UNCHANGED authConfig
  /\ UNCHANGED <<msalInstance, fnInitCalls, active, redirects>>

\* msalLogout lines 77-79, resumed when logoutPopup settles.
msalLogout_resumed(t, ok) ==
  /\ Observed
  /\ task[t].pc = "awaitLogout"
  /\ IF ok
       THEN /\ msalInstance' = Null
            /\ authConfig' = None
            /\ task' = [task EXCEPT ![t] =
                  Settle(Resumed(task[t], "ok", NoResponse), UndefinedResult)]
       ELSE /\ task' = [task EXCEPT ![t] =
                  Settle(Resumed(task[t], "failed", NoResponse),
                         ErrorResult("logoutPopup rejected"))]
            /\ UNCHANGED <<msalInstance, authConfig>>
  /\ active' = Reclaimed(active, msalInstance', task')
  /\ UNCHANGED <<fnInitCalls, redirects>>

\* msalDestroy without the assignment of line 169.
msalDestroy_KeepsConfig(t) ==
  /\ Observed
  /\ task[t].pc = "idle"
  /\ msalInstance' = Null
  /\ task' = [task EXCEPT ![t] =
        [IdleTask EXCEPT !.after = Destroyed(msalInstance, authConfig)]]
  /\ active' = Reclaimed(active, Null, task')
  /\ UNCHANGED <<authConfig, fnInitCalls, redirects>>

\* msalDestroy lines 167-170, called by an idle caller.
msalDestroy(t) ==
  /\ Observed
  /\ task[t].pc = "idle"
  /\ msalInstance' = Null
  /\ authConfig' = None
  /\ task' = [task EXCEPT ![t] =
        [IdleTask EXCEPT !.after = Destroyed(msalInstance, authConfig)]]
  /\ active' = Reclaimed(active, Null, task')
  /\ UNCHANGED <<fnInitCalls, redirects>>

\* msalGetMsal line 87.
msalGetMsal == msalInstance

\* The caller has seen the outcome of its settled operation.
Return(t) ==
  /\ task[t].pc = "done"
  /\ task' = [task EXCEPT ![t] =
        [IdleTask EXCEPT !.after =
           IF \E i \in DOMAIN task[t].calls :
                task[t].calls[i].m = "fnInit" /\ task[t].calls[i].st = "failed"
             THEN CreationFailed
           ELSE IF \E i \in DOMAIN task[t].calls :
                     task[t].calls[i].m = "logoutPopup" /\ task[t].calls[i].st = "ok"
             THEN LoggedOut
           ELSE IF msalInstance = Null THEN task[t].after
           ELSE NoEvent]]
  /\ active' = Reclaimed(active, msalInstance, task')
  /\ UNCHANGED <<msalInstance, authConfig, fnInitCalls, redirects>>

(* --------------------------- specification ---------------------------- *)

Next ==
  \/ \E t \in DOMAIN task, config \in {None} \cup {Some(c) : c \in Configs} :
        msalInit(t, config)
  \/ \E t \in DOMAIN task : msalInit_existing(t)
  \/ \E t \in DOMAIN task, ok \in BOOLEAN, hrpThrows \in BOOLEAN :
        msalInit_created(t, ok, hrpThrows)
  \/ \E h \in Handles, rejected \in BOOLEAN,
        outcome \in {None} \cup {Some(r) : r \in Responses("handleRedirectPromise")},
        accounts \in AccountLists :
        handleRedirectResponse(h, rejected, outcome, accounts)
  \/ \E h \in Handles : redirectResponseHandler(h)
  \/ \E h \in Handles : redirectOver(h)
  \/ \E t \in DOMAIN task, config \in {None} \cup {Some(c) : c \in Configs} :
        msalLogin(t, config)
  \/ \E t \in DOMAIN task : doLogin_call(t)
  \/ \E t \in DOMAIN task, outcome \in {None} \cup {Some(r) : r \in Responses("ssoSilent")} :
        doLogin_ssoSilent(t, outcome)
  \/ \E t \in DOMAIN task, outcome \in {None} \cup {Some(r) : r \in Responses("loginPopup")} :
        doLogin_loginPopup(t, outcome)
  \/ \E t \in DOMAIN task, outcome \in {"resolved", "rejected", "navigated"} :
        doLogin_loginRedirect(t, outcome)
  \/ \E t \in DOMAIN task : msalGetAccessToken(t)
  \/ \E t \in DOMAIN task,
        outcome \in {None} \cup {Some(r) : r \in Responses("acquireTokenSilent")} :
        doGetAccessToken_silent(t, outcome)
  \/ \E t \in DOMAIN task,
        outcome \in {None} \cup {Some(r) : r \in Responses("acquireTokenPopup")} :
        doGetAccessToken_popup(t, outcome)
  \/ \E t \in DOMAIN task : msalLogout(t)
  \/ \E t \in DOMAIN task, ok \in BOOLEAN : msalLogout_resumed(t, ok)
  \/ \E t \in DOMAIN task : msalDestroy(t)
  \/ \E t \in DOMAIN task : Return(t)

Spec == Init /\ [][Next]_vars

(* ------------------------- overlapping callers ------------------------ *)

\* Two callers whose msalInit and msalLogin calls overlap: a caller may call
\* while the other is suspended at an await.  Nobody calls msalLogout or
\* msalDestroy.
InitOverlap ==
  /\ msalInstance = Null
  /\ authConfig = None
  /\ fnInitCalls = 0
  /\ active = [h \in Handles |-> "none"]
  /\ redirects = [h \in Handles |-> NoRedirect]
  /\ task = [t \in {"A", "B"} |-> IdleTask]

\* The configs the overlapping callers pass: mockConfig and mockConfig2.
OverlapConfigs ==
  AuthConfig({"mockTenantId"}, {"mockClientId"}, {None}, {None}, {FALSE}, {FALSE}, {FALSE})
  \cup AuthConfig({"mockTenantId2"}, {"mockClientId2"}, {None}, {None}, {FALSE}, {FALSE},
                  {FALSE})

\* Neither config is of redirect mode, so msalInit starts no promise chain
\* and never calls handleRedirectPromise, and doLogin never calls loginPopup.
NextOverlap ==
  \/ \E t \in DOMAIN task, c \in OverlapConfigs : msalInit(t, Some(c))
  \/ \E t \in DOMAIN task : msalInit_existing(t)
  \/ \E t \in DOMAIN task, ok \in BOOLEAN : msalInit_created(t, ok, FALSE)
  \/ \E t \in DOMAIN task, c \in OverlapConfigs : msalLogin(t, Some(c))
  \/ \E t \in DOMAIN task : doLogin_call(t)
  \/ \E t \in DOMAIN task, outcome \in {None} \cup {Some(r) : r \in Responses("ssoSilent")} :
        doLogin_ssoSilent(t, outcome)
  \/ \E t \in DOMAIN task, outcome \in {"resolved", "rejected", "navigated"} :
        doLogin_loginRedirect(t, outcome)
  \/ \E t \in DOMAIN task : Return(t)

SpecOverlap == InitOverlap /\ [][NextOverlap]_vars

(* ------------------------- vocabulary of the claims ------------------- *)

\* The interaction mode a config asks for, by the spellings of the flow.
IsPopupMode(c) == c.flow \in {Some(Str_popup), Some(Str_Popup)}
IsRedirectMode(c) == c.flow \in {Some(Str_redirect), Some(Str_Redirect)}

\* A config that passes validation.
IsValid(c) ==
  \/ c.flow = None
  \/ IsPopupMode(c)
  \/ IsRedirectMode(c) /\ c.redirectResponseHandler

\* The elements of the scopes of a config (the empty tuple of an array that
\* is absent is told apart from an array by the flag).
ScopesOf(c) ==
  IF c.scopes = None THEN [present |-> FALSE, elements |-> <<>>]
  ELSE [present |-> TRUE, elements |-> ScopeElements(c.scopes[1])]

\* Same tenant id, same client id and the same scopes array.
SameConfig(c1, c2) ==
  c1.tenantId = c2.tenantId /\ c1.clientId = c2.clientId /\ c1.scopes = c2.scopes

\* Config drift by value: tenant id, client id or the elements of the scopes.
Drift(c1, c2) ==
  c1.tenantId # c2.tenantId \/ c1.clientId # c2.clientId \/ ScopesOf(c1) # ScopesOf(c2)

IsInitOrLogin(tk) == tk.op \in {"msalInit", "msalLogin"} /\ tk.cfg # None

\* The call was made while the session held a client and a config.
Initialized(tk) == tk.start.inst # Null /\ tk.start.cfg # None

Invocations(tk, m) == {i \in DOMAIN tk.calls : tk.calls[i].m = m}
Invoked(tk, m) == Invocations(tk, m) # {}
Ended(tk, m, st) == \E i \in DOMAIN tk.calls : tk.calls[i].m = m /\ tk.calls[i].st = st
LastCall(tk) == tk.calls[Len(tk.calls)]

\* The session is as it was when the operation was called.
SessionUntouched(tk) == msalInstance = tk.start.inst /\ authConfig = tk.start.cfg

\* The session is to the caller what a session that was never initialized
\* is: between calls it holds no client and no config, msalGetAccessToken
\* fails with the not-initialized error, and msalInit or msalLogin with a
\* valid config calls fnInit, is not rejected as a different config and, when
\* fnInit resolves and handleRedirectPromise returns, stores the new client
\* and the config, msalInit returning the client.
FreshStart(tk) ==
  /\ tk.start = [inst |-> Null, cfg |-> None]
  /\ tk.pc = "idle" => msalGetMsal = Null /\ authConfig = None
  /\ tk.op = "msalGetAccessToken"
       => /\ tk.pc = "done"
          /\ tk.result = ErrorResult(ErrNotInitialized)
          /\ tk.calls = <<>>
  /\ (IsInitOrLogin(tk) /\ IsValid(tk.cfg[1]))
       => /\ Cardinality(Invocations(tk, "fnInit")) = 1
          /\ tk.calls[1].m = "fnInit"
          /\ tk.result # ErrorResult(ErrDiffer)
          /\ (Ended(tk, "fnInit", "ok") /\ ~Ended(tk, "handleRedirectPromise", "failed"))
               => /\ tk.inst # Null /\ msalGetMsal = tk.inst
                  /\ authConfig = tk.cfg
                  /\ tk.op = "msalInit"
                       => tk.pc = "done" /\ tk.result = HandleResult(tk.inst)

(* -------------------------------- claims ------------------------------ *)

C3_DriftRejected ==
  \A t \in DOMAIN task :
    LET tk == task[t]
    IN  (IsInitOrLogin(tk) /\ Initialized(tk) /\ Drift(tk.cfg[1], tk.start.cfg[1]))
        => /\ tk.pc = "done"
           /\ tk.result.kind = "error"
           /\ tk.calls = <<>>
           /\ SessionUntouched(tk)

\* C3 witness: msalLogin with scopes of other elements has failed on an
\* initialized session.
C3_Witness ==
  \E t \in DOMAIN task :
    /\ task[t].op = "msalLogin" /\ task[t].cfg # None /\ Initialized(task[t])
    /\ task[t].cfg[1].scopes # None /\ task[t].start.cfg[1].scopes # None
    /\ Drift(task[t].cfg[1], task[t].start.cfg[1])
    /\ task[t].result = ErrorResult(ErrDiffer)

\* C4 as stated: msalInit or msalLogin with a valid config that has the
\* tenant id, the client id and the scopes elements of the stored config is
\* not rejected as a different config.
C4_DriftByValue ==
  \A t \in DOMAIN task :
    LET tk == task[t]
    IN  (/\ IsInitOrLogin(tk) /\ Initialized(tk)
         /\ IsValid(tk.cfg[1]) /\ ~Drift(tk.cfg[1], tk.start.cfg[1]))
        => tk.result # ErrorResult(ErrDiffer)

\* C5: msalInit and msalLogin reject a config of redirect mode without a
\* response handler at the call, with or without a client in the session,
\* before fnInit or any call of the client, and leave the session as it was.
C5_RedirectNeedsHandler ==
  \A t \in DOMAIN task :
    LET tk == task[t]
    IN  (/\ IsInitOrLogin(tk)
         /\ IsRedirectMode(tk.cfg[1]) /\ ~tk.cfg[1].redirectResponseHandler)
        => /\ tk.pc = "done"
           /\ tk.result.kind = "error"
           /\ tk.calls = <<>>
           /\ SessionUntouched(tk)

\* C5 witness: msalLogin with flow "Redirect" and no handler has failed on a
\* session that holds a client.
C5_Witness ==
  \E t \in DOMAIN task :
    /\ task[t].op = "msalLogin" /\ task[t].cfg # None
    /\ task[t].cfg[1].flow = Some(Str_Redirect)
    /\ ~task[t].cfg[1].redirectResponseHandler
    /\ task[t].start.inst # Null
    /\ task[t].result.kind = "error"

\* C6: when ssoSilent resolves during msalLogin, msalLogin has called neither
\* loginPopup nor loginRedirect, the account of the response is the active
\* account of the client, set by the last call before the return, and
\* msalLogin returns that response.
C6_SsoSuccess ==
  \A t \in DOMAIN task :
    LET tk == task[t]
    IN  (tk.op = "msalLogin" /\ Ended(tk, "ssoSilent", "ok"))
        => \E i \in Invocations(tk, "ssoSilent") :
             /\ tk.pc = "done"
             /\ tk.result = RespResult(tk.calls[i].r)
             /\ tk.calls[i].r.from = "ssoSilent"
             /\ ~Invoked(tk, "loginPopup") /\ ~Invoked(tk, "loginRedirect")
             /\ LastCall(tk).m = "setActiveAccount"
             /\ LastCall(tk).r.account = tk.calls[i].r.account
             /\ active[tk.inst] = tk.calls[i].r.account

\* C6 witness: ssoSilent has resolved with acc2 on a client whose active
\* account was set before.
C6_Witness ==
  \E t \in DOMAIN task :
    /\ task[t].op = "msalLogin" /\ Ended(task[t], "ssoSilent", "ok")
    /\ task[t].result.resp.account = "acc2"
    /\ task[t].start.inst # Null

\* C7: when ssoSilent fails during msalLogin with a config of popup mode,
\* loginPopup is called once and loginRedirect never; when loginPopup
\* resolves, its account is the active account and msalLogin returns its
\* response; when it fails, msalLogin fails and calls nothing more.
C7_PopupFallback ==
  \A t \in DOMAIN task :
    LET tk == task[t]
    IN  (/\ tk.op = "msalLogin" /\ tk.cfg # None /\ IsPopupMode(tk.cfg[1])
         /\ Ended(tk, "ssoSilent", "failed"))
        => /\ Cardinality(Invocations(tk, "loginPopup")) = 1
           /\ ~Invoked(tk, "loginRedirect")
           /\ \A i \in Invocations(tk, "loginPopup") :
                /\ tk.calls[i].st = "ok"
                     => /\ tk.pc = "done"
                        /\ tk.result = RespResult(tk.calls[i].r)
                        /\ tk.calls[i].r.from = "loginPopup"
                        /\ active[tk.inst] = tk.calls[i].r.account
                /\ tk.calls[i].st = "failed"
                     => /\ tk.pc = "done"
                        /\ tk.result.kind = "error"
                        /\ i = Len(tk.calls)

\* C7 witness: with flow "Popup", ssoSilent has failed and loginPopup has
\* resolved.
C7_Witness ==
  \E t \in DOMAIN task :
    /\ task[t].op = "msalLogin" /\ task[t].cfg # None
    /\ task[t].cfg[1].flow = Some(Str_Popup)
    /\ Ended(task[t], "ssoSilent", "failed")
    /\ Ended(task[t], "loginPopup", "ok")

\* C7 second case, reached as well: loginPopup has failed.
C7_WitnessFailure ==
  \E t \in DOMAIN task :
    /\ task[t].op = "msalLogin" /\ task[t].cfg # None /\ IsPopupMode(task[t].cfg[1])
    /\ Ended(task[t], "loginPopup", "failed")

\* C8 as stated: when ssoSilent fails during msalLogin with a config whose
\* flow is unset, loginPopup is called and loginRedirect is not.
C8_UnsetFlowIsPopup ==
  \A t \in DOMAIN task :
    LET tk == task[t]
    IN  (/\ tk.op = "msalLogin" /\ tk.cfg # None /\ tk.cfg[1].flow = None
         /\ Ended(tk, "ssoSilent", "failed"))
        => Invoked(tk, "loginPopup") /\ ~Invoked(tk, "loginRedirect")

\* C9: when ssoSilent fails during msalLogin with a config of redirect mode,
\* loginRedirect is called once, loginPopup never, and msalLogin does not
\* return a response.
C9_RedirectFallback ==
  \A t \in DOMAIN task :
    LET tk == task[t]
    IN  (/\ tk.op = "msalLogin" /\ tk.cfg # None /\ IsRedirectMode(tk.cfg[1])
         /\ Ended(tk, "ssoSilent", "failed"))
        => /\ Cardinality(Invocations(tk, "loginRedirect")) = 1
           /\ ~Invoked(tk, "loginPopup")
           /\ tk.result.kind \in {"none", "undefined", "error"}
           /\ tk.result.resp = NoResponse

\* C9 witness: in redirect mode ssoSilent has failed, loginRedirect has
\* resolved and msalLogin has returned.
C9_Witness ==
  \E t \in DOMAIN task :
    /\ task[t].op = "msalLogin" /\ task[t].cfg # None /\ IsRedirectMode(task[t].cfg[1])
    /\ Ended(task[t], "ssoSilent", "failed")
    /\ Ended(task[t], "loginRedirect", "ok")
    /\ task[t].pc = "done"

\* C10 as stated: msalLogin with a config that sets noSso does not call
\* ssoSilent.
C10_NoSsoSkipsSso ==
  \A t \in DOMAIN task :
    (task[t].op = "msalLogin" /\ task[t].cfg # None /\ task[t].cfg[1].noSso)
    => ~Invoked(task[t], "ssoSilent")

\* C11: msalGetAccessToken called while the session holds no client fails at
\* the call with the not-initialized error, calls neither acquireTokenSilent
\* nor an interactive acquisition, and leaves the session as it was.
C11_NotInitialized ==
  \A t \in DOMAIN task :
    LET tk == task[t]
    IN  (tk.op = "msalGetAccessToken" /\ tk.start.inst = Null)
        => /\ tk.pc = "done"
           /\ tk.result = ErrorResult(ErrNotInitialized)
           /\ tk.calls = <<>>
           /\ SessionUntouched(tk)

\* C11 witness: msalGetAccessToken has failed before any client was created.
C11_Witness ==
  \E t \in DOMAIN task :
    /\ task[t].op = "msalGetAccessToken" /\ task[t].start.inst = Null
    /\ fnInitCalls = 0
    /\ task[t].result = ErrorResult(ErrNotInitialized)

\* C12 as stated: msalGetAccessToken on a session with a client calls
\* acquireTokenSilent first; when that resolves nothing interactive is
\* called; when it fails, acquireTokenPopup and not acquireTokenRedirect is
\* called if the stored config is of popup mode, acquireTokenRedirect and not
\* acquireTokenPopup if it is of redirect mode.
C12_FallbackMatchesMode ==
  \A t \in DOMAIN task :
    LET tk == task[t]
    IN  (tk.op = "msalGetAccessToken" /\ Initialized(tk))
        => /\ tk.calls # <<>> /\ tk.calls[1].m = "acquireTokenSilent"
           /\ Ended(tk, "acquireTokenSilent", "ok")
                => ~Invoked(tk, "acquireTokenPopup") /\ ~Invoked(tk, "acquireTokenRedirect")
           /\ (Ended(tk, "acquireTokenSilent", "failed") /\ IsPopupMode(tk.start.cfg[1]))
                => Invoked(tk, "acquireTokenPopup") /\ ~Invoked(tk, "acquireTokenRedirect")
           /\ (Ended(tk, "acquireTokenSilent", "failed") /\ IsRedirectMode(tk.start.cfg[1]))
                => Invoked(tk, "acquireTokenRedirect") /\ ~Invoked(tk, "acquireTokenPopup")

\* C13 as stated: msalGetAccessToken on a session whose stored config sets
\* noAcquireTokenSilent does not call acquireTokenSilent.
C13_NoSilentSkipsSilent ==
  \A t \in DOMAIN task :
    LET tk == task[t]
    IN  (/\ tk.op = "msalGetAccessToken" /\ Initialized(tk)
         /\ tk.start.cfg[1].noAcquireTokenSilent)
        => ~Invoked(tk, "acquireTokenSilent")

\* C14: msalLogout called while the session holds no client returns at the
\* call without an error, calls no logout of a client, and the session still
\* holds no client and no config.
C14_LogoutNoClient ==
  \A t \in DOMAIN task :
    LET tk == task[t]
    IN  (tk.op = "msalLogout" /\ tk.start.inst = Null)
        => /\ tk.pc = "done"
           /\ tk.result = UndefinedResult
           /\ tk.calls = <<>>
           /\ SessionUntouched(tk)
           /\ msalInstance = Null /\ authConfig = None

\* C14 witness: msalLogout has returned on a session whose client an earlier
\* operation had cleared.
C14_Witness ==
  \E t \in DOMAIN task :
    /\ task[t].op = "msalLogout" /\ task[t].start.inst = Null
    /\ fnInitCalls > 0
    /\ task[t].pc = "done" /\ task[t].result = UndefinedResult

C16_LogoutAlwaysClears ==
  \A t \in DOMAIN task :
    LET tk == task[t]
    IN  (/\ tk.op = "msalLogout"
         /\ Ended(tk, "logoutPopup", "ok") \/ Ended(tk, "logoutPopup", "failed"))
        => /\ tk.result.kind # "error"
           /\ msalInstance = Null /\ authConfig = None

\* C17 as stated: msalLogout on a session with a client and a config calls
\* logoutPopup and not logoutRedirect if the stored config is of popup mode,
\* logoutRedirect and not logoutPopup if it is of redirect mode.
C17_LogoutMatchesMode ==
  \A t \in DOMAIN task :
    LET tk == task[t]
    IN  (tk.op = "msalLogout" /\ Initialized(tk))
        => /\ IsPopupMode(tk.start.cfg[1])
                => Invoked(tk, "logoutPopup") /\ ~Invoked(tk, "logoutRedirect")
           /\ IsRedirectMode(tk.start.cfg[1])
                => Invoked(tk, "logoutRedirect") /\ ~Invoked(tk, "logoutPopup")

\* C18: after msalDestroy, whatever the session held, the session is to the
\* caller as freshly started: msalGetMsal is null, msalGetAccessToken fails
\* with the not-initialized error, and msalInit or msalLogin with any valid
\* config is not rejected and stores a client other than the one destroyed.
C18_DestroyIsFreshStart ==
  \A t \in DOMAIN task :
    LET tk == task[t]
    IN  tk.after.event = "msalDestroy"
        => /\ FreshStart(tk)
           /\ (IsInitOrLogin(tk) /\ Ended(tk, "fnInit", "ok")) => tk.after.inst # msalGetMsal

\* C18 witness: after msalDestroy of an initialized session, msalInit with a
\* config that differs from the one destroyed has returned a new client.
C18_Witness ==
  \E t \in DOMAIN task :
    /\ task[t].after.event = "msalDestroy" /\ task[t].after.cfg # None
    /\ task[t].op = "msalInit" /\ task[t].cfg # None
    /\ Drift(task[t].cfg[1], task[t].after.cfg[1])
    /\ msalGetMsal # Null
    /\ task[t].result = HandleResult(msalGetMsal)

\* C19: when fnInit rejects inside msalInit (or msalLogin), the call fails
\* having called nothing else and the session holds no client and no config;
\* the caller's next msalInit or msalLogin with a valid config calls fnInit
\* again and, when that resolves, stores the client.
C19_CreationFailure ==
  \A t \in DOMAIN task :
    LET tk == task[t]
    IN  /\ (IsInitOrLogin(tk) /\ Ended(tk, "fnInit", "failed"))
            => /\ tk.pc = "done" /\ tk.result.kind = "error"
               /\ Len(tk.calls) = 1
               /\ msalGetMsal = Null /\ authConfig = None
        /\ tk.after = CreationFailed => FreshStart(tk)

\* C19 witness: after an msalInit whose fnInit rejected, msalInit has created
\* and returned a client.
C19_Witness ==
  \E t \in DOMAIN task :
    /\ task[t].after = CreationFailed
    /\ task[t].op = "msalInit"
    /\ msalGetMsal # Null
    /\ task[t].result = HandleResult(msalGetMsal)

\* C20: the redirect-response callback of a completion is called at most
\* once, and only when handleRedirectPromise has resolved with a response,
\* after handleRedirectResponse has made that response's account the active
\* account; when handleRedirectPromise resolves with null, or rejects, it is
\* not called.
C20_CallbackOnlyWithResponse ==
  \A h \in Handles :
    LET r == redirects[h]
    IN  /\ r.callbacks <= 1
        /\ r.callbacks = 1
             => /\ r.stage = "settled"
                /\ r.resp # NoResponse /\ r.resp.from = "handleRedirectPromise"
                /\ r.setOn # Null /\ active[r.setOn] = r.resp.account
        /\ (r.stage = "settled" /\ r.resp = NoResponse) => r.callbacks = 0
        /\ r.stage \in {"none", "pending", "handled", "rejected", "threw"}
             => r.callbacks = 0

\* C20 witness: the callback has been called with the response of
\* handleRedirectPromise.
C20_Witness ==
  \E h \in Handles :
    /\ redirects[h].callbacks = 1
    /\ redirects[h].resp.account = "acc2"

\* C21: when handleRedirectResponse has run on a session with a client, it
\* has called setActiveAccount with the account of the response if
\* handleRedirectPromise resolved with one; with the first of the accounts
\* of getAllAccounts if it resolved with null and there are accounts; and
\* not at all if it resolved with null and there are none.
C21_CompletionSetsAccount ==
  \A h \in Handles :
    LET r == redirects[h]
    IN  r.stage \in {"handled", "settled"}
        => /\ r.resp # NoResponse
                => /\ r.listed = None
                   /\ r.setOn # Null /\ r.account = r.resp.account
                   /\ active[r.setOn] = r.resp.account
           /\ (r.resp = NoResponse /\ r.listed # None /\ r.listed # Some(<<>>))
                => /\ r.setOn # Null /\ r.account = r.listed[1][1]
                   /\ active[r.setOn] = r.listed[1][1]
           /\ (r.resp = NoResponse /\ r.listed = Some(<<>>))
                => r.setOn = Null /\ r.account = "none"
           /\ r.resp = NoResponse => r.listed # None

\* C21 witness: handleRedirectPromise has resolved with null and the first
\* of two cached accounts has been made the active account.
C21_Witness ==
  \E h \in Handles :
    /\ redirects[h].stage = "handled"
    /\ redirects[h].resp = NoResponse
    /\ redirects[h].listed = Some(<<"acc2", "acc1">>)
    /\ redirects[h].account = "acc2"

\* C22 as stated: between operations and at every suspension point the
\* session holds a client if and only if it holds a config.
C22_ClientIffConfig == (msalInstance # Null) <=> (authConfig # None)

\* C24 as stated: the completion of the msalInit that created client h does
\* not throw, and calls setActiveAccount on no client other than h.
C24_CompletionOnOwnClient ==
  \A h \in Handles :
    /\ redirects[h].stage # "threw"
    /\ redirects[h].setOn # Null => redirects[h].setOn = h

\* msalInit has called handleRedirectPromise on the client that the
\* msalLogin tk works with: in this call, or, for a client the session held
\* already, when it was created (the stored config is of redirect mode, or
\* there is none because that call threw).
RedirectRegistered(tk) ==
  \/ Invoked(tk, "handleRedirectPromise")
  \/ /\ tk.start.inst # Null
     /\ \/ tk.start.cfg = None
        \/ /\ tk.start.cfg # None
           /\ flowLower(tk.start.cfg[1]) = Some(Str_redirect)

\* C25 as stated: whenever msalLogin has called loginRedirect, its config is
\* of redirect mode with a response handler, and msalInit has called
\* handleRedirectPromise on the client.
C25_RedirectOnlyIfRegistered ==
  \A t \in DOMAIN task :
    LET tk == task[t]
    IN  (tk.op = "msalLogin" /\ Invoked(tk, "loginRedirect"))
        => /\ IsRedirectMode(tk.cfg[1])
           /\ tk.cfg[1].redirectResponseHandler
           /\ RedirectRegistered(tk)

\* C23 as stated: when msalInit and msalLogin calls with valid configs
\* overlap and nobody calls msalLogout or msalDestroy, no two calls in flight
\* have both called fnInit, and the client that a call has got from msalInit
\* is the client the session holds.
C23_SingleCreation ==
  /\ \A a \in DOMAIN task, b \in DOMAIN task :
        a # b => ~(Invoked(task[a], "fnInit") /\ Invoked(task[b], "fnInit"))
  /\ \A t \in DOMAIN task :
        LET tk == task[t]
        IN  (IsInitOrLogin(tk) /\ tk.pc # "awaitFnInit" /\ tk.inst # Null)
            => tk.inst = msalInstance

====
